---- MODULE Spec2Model ----
(***************************************************************************)
(* UNet2DConditionModel (tensorrt_llm/models/unet/unet_2d_condition.py):   *)
(* construction of the down / mid / up block lists from an architecture    *)
(* config, and the forward pass that threads the hidden state, the         *)
(* conditioning embedding and the tuple of skip tensors                    *)
(* (down_block_res_samples) through them.                                  *)
(*                                                                         *)
(* Python sequences are 0-based; the sequences here are 1-based, so a      *)
(* Python index i is the index i + 1 here.                                 *)
(***************************************************************************)
EXTENDS Integers, Sequences, FiniteSets, TLC

\* ------------------------------------------------------------------ bounds
\* longest down_block_types / up_block_types that is tried
MaxStages == 2
\* largest layers_per_block that is tried
MaxLayers == 2
\* tensor contents are abstracted to a digest modulo this number
DigestMod == 5

\* ------------------------------------------------------------ small helpers
Min(a, b) == IF a < b THEN a ELSE b

Max(a, b) == IF a > b THEN a ELSE b

Reversed(s) == [i \in 1..Len(s) |-> s[Len(s) + 1 - i]]

Repeat(x, n) == [i \in 1..n |-> x]

Mix(a, b) == (2 * a + b + 1) % DigestMod

RECURSIVE MixN(_, _, _)
MixN(v, e, n) == IF n = 0 THEN v ELSE MixN(Mix(v, e), e, n - 1)

\* ------------------------------------------------------------------ config
\* a hyperparameter that is either an int or a sequence (isinstance(x, int))
Scalar(n) == [isint |-> TRUE, int |-> n, seq |-> <<>>]

Listed(s) == [isint |-> FALSE, int |-> 0, seq |-> s]

ScalarOrSeq(v) == {Scalar(v)} \cup {Listed(Repeat(v, n)) : n \in 1..(MaxStages + 1)}

DownTypeSeqs ==
    UNION {{Repeat("DownBlock2D", n),
            Repeat("CrossAttnDownBlock2D", n),
            [i \in 1..n |-> IF i < n THEN "CrossAttnDownBlock2D" ELSE "DownBlock2D"]}
           : n \in 1..MaxStages}

UpTypeSeqs ==
    UNION {{Repeat("UpBlock2D", n),
            Repeat("CrossAttnUpBlock2D", n),
            [i \in 1..n |-> IF i > 1 THEN "CrossAttnUpBlock2D" ELSE "UpBlock2D"]}
           : n \in 1..MaxStages}

\* block_out_channels: widths that grow stage by stage (4, 8, 12, ...) or stay
\* the same (4, 4, 4, ...)
ChannelSeqs ==
    {[i \in 1..n |-> 4 * i] : n \in 1..(MaxStages + 1)}
    \cup {Repeat(4, n) : n \in 1..(MaxStages + 1)}

Configs ==
    [in_channels : {4},
     out_channels : {3},
     down_block_types : DownTypeSeqs,
     up_block_types : UpTypeSeqs,
     block_out_channels : ChannelSeqs,
     layers_per_block : 1..MaxLayers,
     transformer_layers_per_block : ScalarOrSeq(1),
     attention_head_dim : ScalarOrSeq(8),
     addition_embed_type : {"None", "text_time"}]

NoConfig ==
    [in_channels |-> 0, out_channels |-> 0, down_block_types |-> <<>>,
     up_block_types |-> <<>>, block_out_channels |-> <<>>, layers_per_block |-> 0,
     transformer_layers_per_block |-> Scalar(0), attention_head_dim |-> Scalar(0),
     addition_embed_type |-> "None"]

\* ------------------------------------------------------------ construction
\* lines 91-96: an int is repeated len(down_block_types) times, a sequence is
\* taken as it is
Broadcast(x, n) == IF x.isint THEN Repeat(x.int, n) ELSE x.seq

\* s[i] of Python raises IndexError unless the index exists
HasIndex(s, i) == i \in 1..Len(s)

\* line 103: is_final_block of the down loop
DownIsFinal(i, boc) == i = Len(boc)

\* lines 105-120
DownBlock(c, i) ==
    LET boc == c.block_out_channels
        n == Len(c.down_block_types)
    IN [type |-> c.down_block_types[i],
        num_layers |-> c.layers_per_block,
        transformer_layers |-> Broadcast(c.transformer_layers_per_block, n)[i],
        in_channels |-> IF i = 1 THEN boc[1] ELSE boc[i - 1],
        out_channels |-> boc[i],
        add_downsample |-> ~DownIsFinal(i, boc),
        heads |-> Broadcast(c.attention_head_dim, n)[i]]

\* lines 123-136
MidBlock(c) ==
    LET boc == c.block_out_channels
        n == Len(c.down_block_types)
        tl == Broadcast(c.transformer_layers_per_block, n)
        ahd == Broadcast(c.attention_head_dim, n)
    IN [type |-> "UNetMidBlock2DCrossAttn",
        num_layers |-> 1,
        transformer_layers |-> tl[Len(tl)],
        in_channels |-> boc[Len(boc)],
        out_channels |-> boc[Len(boc)],
        heads |-> ahd[Len(ahd)]]

\* is_final_block that no up block satisfies: the last one upsamples too
UpIsFinalNever(i, boc) == i = Len(boc) + 1

\* line 150: is_final_block of the up loop
UpIsFinal(i, boc) == i = Len(boc)

\* num_layers of an up block without the extra layer
UpNumLayersSame(layers_per_block) == layers_per_block

\* line 154: num_layers of an up block
UpNumLayers(layers_per_block) == layers_per_block + 1

\* lines 138-170
UpBlock(c, i) ==
    LET boc == c.block_out_channels
        n == Len(c.down_block_types)
        rboc == Reversed(boc)
        rtl == Reversed(Broadcast(c.transformer_layers_per_block, n))
        rahd == Reversed(Broadcast(c.attention_head_dim, n))
    IN [type |-> c.up_block_types[i],
        num_layers |-> UpNumLayers(c.layers_per_block),
        transformer_layers |-> rtl[i],
        in_channels |-> rboc[Min(i + 1, Len(boc))],
        out_channels |-> rboc[i],
        add_upsample |-> ~UpIsFinal(i, boc),
        heads |-> rahd[i]]

\* __init__ returns normally: no subscript of lines 59-170 raises IndexError
ConstructOk(c) ==
    LET boc == c.block_out_channels
        n == Len(c.down_block_types)
        tl == Broadcast(c.transformer_layers_per_block, n)
        ahd == Broadcast(c.attention_head_dim, n)
    IN /\ HasIndex(boc, 1)
       /\ \A i \in 1..n : HasIndex(boc, i) /\ HasIndex(tl, i) /\ HasIndex(ahd, i)
       /\ Len(boc) >= 1 /\ Len(tl) >= 1 /\ Len(ahd) >= 1
       /\ \A i \in 1..Len(c.up_block_types) :
             HasIndex(boc, i) /\ HasIndex(tl, i) /\ HasIndex(ahd, i)

\* the attributes __init__ sets on self
BuildModel(c) ==
    [addition_embed_type |-> c.addition_embed_type,
     conv_in |-> [in_channels |-> c.in_channels, out_channels |-> c.block_out_channels[1]],
     down_blocks |-> [i \in 1..Len(c.down_block_types) |-> DownBlock(c, i)],
     mid_block |-> MidBlock(c),
     up_blocks |-> [i \in 1..Len(c.up_block_types) |-> UpBlock(c, i)],
     conv_norm_out |-> c.block_out_channels[1],
     conv_out |-> [in_channels |-> c.block_out_channels[1], out_channels |-> c.out_channels]]

NoModel ==
    [addition_embed_type |-> "None",
     conv_in |-> [in_channels |-> 0, out_channels |-> 0],
     down_blocks |-> <<>>,
     mid_block |-> [type |-> "None", num_layers |-> 0, transformer_layers |-> 0,
                    in_channels |-> 0, out_channels |-> 0, heads |-> 0],
     up_blocks |-> <<>>,
     conv_norm_out |-> 0,
     conv_out |-> [in_channels |-> 0, out_channels |-> 0]]

\* ----------------------------------------------------------------- tensors
\* a tensor: where it was produced, its spatial resolution, its channel
\* count and a digest of its contents
Tensor(kind, stage, idx, res, ch, v) ==
    [src |-> [kind |-> kind, stage |-> stage, idx |-> idx], res |-> res, ch |-> ch, v |-> v]

NoTensor == Tensor("None", 0, 0, 0, 0, 0)

NoEmb == [time |-> 0, aug |-> <<>>]

\* time_embedding(time_proj(timesteps)), lines 190-191
TimeEmbedding(timesteps) == [time |-> timesteps, aug |-> <<>>]

\* add_embedding(concat([text_embeds, add_time_proj(time_ids)])), lines 196-200
AddEmbedding(text_embeds, time_ids) == <<text_embeds, time_ids>>

\* emb + aug_emb, line 202
EmbSum(e, aug) == [e EXCEPT !.aug = aug]

EmbDigest(e) == (e.time + 2 * Len(e.aug)) % DigestMod

\* the assert with "or" for "and": one of the two inputs is enough
AuxPresentEither(a) == a.text_embeds # "None" \/ a.time_ids # "None"

\* line 195: the operand of the assert
AuxPresent(a) == a.text_embeds # "None" /\ a.time_ids # "None"

\* line 194
WantsAux(m) == m.addition_embed_type = "text_time"

\* ------------------------------------------------------------------ blocks
\* hasattr(block, "attentions") and block.attentions is not None
HasAttentions(blk) ==
    blk.type \in {"CrossAttnDownBlock2D", "CrossAttnUpBlock2D", "UNetMidBlock2DCrossAttn"}

\* len(block.resnets)
Resnets(blk) == blk.num_layers

\* 3x3 convolution, stride 2, padding 1
Halve(res) == (res - 1) \div 2 + 1

Double(res) == 2 * res

\* Conv2d with padding (1, 1) and kernel (3, 3): same resolution
Conv(conv, kind, x) == Tensor(kind, 0, 0, x.res, conv.out_channels, Mix(x.v, 0))

\* a down block: one residual output per resnet, then the downsampled output
\* when it has a downsampler; returns (sample, res_samples)
DownBlockCall(blk, stage, hidden, temb, enc) ==
    LET e == EmbDigest(temb) + (IF enc THEN 1 ELSE 0)
        resid == [j \in 1..Resnets(blk) |->
                     Tensor("res", stage, j, hidden.res, blk.out_channels,
                            MixN(hidden.v, e, j))]
        last == IF Resnets(blk) = 0 THEN hidden ELSE resid[Resnets(blk)]
        ds == Tensor("ds", stage, 0, Halve(last.res), blk.out_channels, Mix(last.v, e))
    IN IF blk.add_downsample
       THEN [sample |-> ds, res_samples |-> Append(resid, ds)]
       ELSE [sample |-> last, res_samples |-> resid]

\* the mid block: same shape out as in
MidBlockCall(blk, hidden, temb, enc) ==
    Tensor("mid", 0, 0, hidden.res, hidden.ch,
           Mix(hidden.v, EmbDigest(temb) + (IF enc THEN 1 ELSE 0)))

RECURSIVE FoldSkips(_, _)
FoldSkips(v, skips) ==
    IF skips = <<>> THEN v
    ELSE FoldSkips(Mix(v, skips[Len(skips)].v), SubSeq(skips, 1, Len(skips) - 1))

\* an up block: each resnet takes the last remaining skip tensor; then the
\* upsampler, when it has one
UpBlockCall(blk, stage, hidden, temb, res_hidden_states_tuple, enc) ==
    LET e == EmbDigest(temb) + (IF enc THEN 1 ELSE 0)
    IN Tensor("up", stage, 0,
              IF blk.add_upsample THEN Double(hidden.res) ELSE hidden.res,
              blk.out_channels,
              Mix(FoldSkips(hidden.v, res_hidden_states_tuple), e))

\* ------------------------------------------------------------------- state
VARIABLES
    pc,                      \* where the program is
    cfg,                     \* the arguments __init__ was called with
    model,                   \* self
    args,                    \* the arguments of the running forward call
    emb,                     \* forward's local emb
    sample,                  \* forward's local sample
    down_block_res_samples,  \* forward's local tuple of skip tensors
    idx,                     \* position of the running for loop
    trace,                   \* what the running call has invoked so far
    ret,                     \* the value the call returned
    err,                     \* the exception the call raised
    ref                      \* an earlier call of this model, kept for comparison

vars == <<pc, cfg, model, args, emb, sample, down_block_res_samples, idx, trace, ret,
          err, ref>>

locals == <<emb, sample, down_block_res_samples, idx>>

SampleSizes == {8, 16}

Inputs ==
    [sample : {Tensor("input", 0, 0, s, 4, 1) : s \in SampleSizes},
     timesteps : {1, 2},
     text_embeds : {"None", "pooled"},
     time_ids : {"None", "ids"}]

NoArgs == [sample |-> NoTensor, timesteps |-> 0, text_embeds |-> "None", time_ids |-> "None"]

NoRef == [args |-> NoArgs, ret |-> NoTensor, err |-> "None", trace |-> <<>>]

\* one entry of trace: the step, the block's position, the embedding and the
\* hidden state it was given, the skip tensors it was given (up) or returned
\* (conv_in, down), whether encoder_hidden_states was passed, and the length
\* of down_block_res_samples after the step
Entry(op, stage, blk, e, hidden, res, enc, stk) ==
    [op |-> op, stage |-> stage, resnets |-> blk, emb |-> e, hidden |-> hidden,
     res |-> res, enc |-> enc, stk |-> stk]

Init ==
    /\ pc = "new"
    /\ cfg = NoConfig
    /\ model = NoModel
    /\ args = NoArgs
    /\ emb = NoEmb
    /\ sample = NoTensor
    /\ down_block_res_samples = <<>>
    /\ idx = 0
    /\ trace = <<>>
    /\ ret = NoTensor
    /\ err = "None"
    /\ ref = NoRef

\* UNet2DConditionModel(**c): a model, or IndexError and no model
ConstructFrom(S) ==
    /\ pc = "new"
    /\ \E c \in S :
          /\ cfg' = c
          /\ IF ConstructOk(c)
             THEN model' = BuildModel(c) /\ pc' = "idle" /\ err' = "None"
             ELSE model' = NoModel /\ pc' = "nomodel" /\ err' = "IndexError"
    /\ UNCHANGED <<args, locals, trace, ret, ref>>

Construct == ConstructFrom(Configs)

\* model.forward(sample, timesteps, encoder_hidden_states, text_embeds, time_ids)
Call ==
    /\ pc = "idle"
    /\ \E a \in Inputs :
          /\ args' = a
          /\ sample' = a.sample
    /\ pc' = "embed"
    /\ trace' = <<>>
    /\ UNCHANGED <<cfg, model, emb, down_block_res_samples, idx, ret, err, ref>>

\* lines 189-202
ForwardEmbed ==
    /\ pc = "embed"
    /\ IF WantsAux(model) /\ ~AuxPresent(args)
       THEN /\ pc' = "failed"
            /\ err' = "AssertionError"
            /\ UNCHANGED <<emb, trace>>
       ELSE LET t == TimeEmbedding(args.timesteps)
                e == IF WantsAux(model)
                     THEN EmbSum(t, AddEmbedding(args.text_embeds, args.time_ids))
                     ELSE t
            IN /\ emb' = e
               /\ trace' = Append(trace, Entry("embed", 0, 0, e, NoTensor, <<>>, FALSE, 0))
               /\ pc' = "conv_in"
               /\ err' = "None"
    /\ UNCHANGED <<cfg, model, args, sample, down_block_res_samples, idx, ret, ref>>

\* where the down loop goes after i blocks have run (lines 207, 222)
AfterDown(m, i) == IF i < Len(m.down_blocks) THEN "down" ELSE "mid"

\* where the up loop goes after i blocks have run (lines 226, 245)
AfterUp(m, i) == IF i < Len(m.up_blocks) THEN "up" ELSE "out"

\* lines 204-206
ForwardConvIn ==
    /\ pc = "conv_in"
    /\ LET s == Conv(model.conv_in, "conv_in", sample)
       IN /\ sample' = s
          /\ down_block_res_samples' = <<s>>
          /\ trace' = Append(trace, Entry("conv_in", 0, 0, NoEmb, sample, <<s>>, FALSE, 1))
    /\ idx' = 0
    /\ pc' = AfterDown(model, 0)
    /\ UNCHANGED <<cfg, model, args, emb, ret, err, ref>>

\* lines 207-220: one iteration
ForwardDown ==
    /\ pc = "down"
    /\ LET i == idx + 1
           blk == model.down_blocks[i]
           enc == HasAttentions(blk)
           out == DownBlockCall(blk, i, sample, emb, enc)
           stack == down_block_res_samples \o out.res_samples
       IN /\ sample' = out.sample
          /\ down_block_res_samples' = stack
          /\ trace' = Append(trace, Entry("down", i, Resnets(blk), emb, sample,
                                          out.res_samples, enc, Len(stack)))
          /\ idx' = i
          /\ pc' = AfterDown(model, i)
    /\ UNCHANGED <<cfg, model, args, emb, ret, err, ref>>

\* the mid block given the timestep embedding without the auxiliary part
ForwardMidTimeOnly ==
    /\ pc = "mid"
    /\ sample' = MidBlockCall(model.mid_block, sample, TimeEmbedding(args.timesteps), TRUE)
    /\ trace' = Append(trace, Entry("mid", 0, Resnets(model.mid_block),
                                    TimeEmbedding(args.timesteps), sample, <<>>,
                                    TRUE, Len(down_block_res_samples)))
    /\ idx' = 0
    /\ pc' = AfterUp(model, 0)
    /\ UNCHANGED <<cfg, model, args, emb, down_block_res_samples, ret, err, ref>>

\* lines 222-224
ForwardMid ==
    /\ pc = "mid"
    /\ sample' = MidBlockCall(model.mid_block, sample, emb, TRUE)
    /\ trace' = Append(trace, Entry("mid", 0, Resnets(model.mid_block), emb, sample, <<>>,
                                    TRUE, Len(down_block_res_samples)))
    /\ idx' = 0
    /\ pc' = AfterUp(model, 0)
    /\ UNCHANGED <<cfg, model, args, emb, down_block_res_samples, ret, err, ref>>

\* x[-k:] of Python
TailSlice(x, k) == IF k = 0 THEN x ELSE SubSeq(x, Max(Len(x) - k, 0) + 1, Len(x))

\* x[:-k] of Python
HeadSlice(x, k) == IF k = 0 THEN <<>> ELSE SubSeq(x, 1, Max(Len(x) - k, 0))

\* the up loop taking its blocks off self.up_blocks as it runs them
ForwardUpConsuming ==
    /\ pc = "up"
    /\ LET blk == model.up_blocks[1]
           enc == HasAttentions(blk)
           res_samples == TailSlice(down_block_res_samples, Resnets(blk))
           stack == HeadSlice(down_block_res_samples, Resnets(blk))
       IN /\ down_block_res_samples' = stack
          /\ sample' = UpBlockCall(blk, idx + 1, sample, emb, res_samples, enc)
          /\ trace' = Append(trace, Entry("up", idx + 1, Resnets(blk), emb, sample,
                                          res_samples, enc, Len(stack)))
          /\ idx' = idx + 1
          /\ model' = [model EXCEPT !.up_blocks = Tail(@)]
          /\ pc' = IF Len(model.up_blocks) > 1 THEN "up" ELSE "out"
    /\ UNCHANGED <<cfg, args, emb, ret, err, ref>>

\* lines 226-243: one iteration
ForwardUp ==
    /\ pc = "up"
    /\ LET i == idx + 1
           blk == model.up_blocks[i]
           enc == HasAttentions(blk)
           res_samples == TailSlice(down_block_res_samples, Resnets(blk))
           stack == HeadSlice(down_block_res_samples, Resnets(blk))
       IN /\ down_block_res_samples' = stack
          /\ sample' = UpBlockCall(blk, i, sample, emb, res_samples, enc)
          /\ trace' = Append(trace, Entry("up", i, Resnets(blk), emb, sample, res_samples,
                                          enc, Len(stack)))
          /\ idx' = i
          /\ pc' = AfterUp(model, i)
    /\ UNCHANGED <<cfg, model, args, emb, ret, err, ref>>

\* lines 245-249
ForwardOut ==
    /\ pc = "out"
    /\ LET s == Conv(model.conv_out, "conv_out", sample)
       IN /\ sample' = s
          /\ ret' = s
          /\ trace' = Append(trace, Entry("out", 0, 0, NoEmb, sample, <<>>, FALSE,
                                          Len(down_block_res_samples)))
    /\ pc' = "done"
    /\ UNCHANGED <<cfg, model, args, emb, down_block_res_samples, idx, err, ref>>

\* the call is over, by return or by the exception: its frame is gone
EndCall ==
    /\ pc' = "idle"
    /\ args' = NoArgs
    /\ emb' = NoEmb
    /\ sample' = NoTensor
    /\ down_block_res_samples' = <<>>
    /\ idx' = 0
    /\ trace' = <<>>
    /\ ret' = NoTensor
    /\ err' = "None"
    /\ UNCHANGED <<cfg, model>>

Return ==
    /\ pc \in {"done", "failed"}
    /\ EndCall
    /\ UNCHANGED ref

Next ==
    \/ Construct
    \/ Call
    \/ ForwardEmbed
    \/ ForwardConvIn
    \/ ForwardDown
    \/ ForwardMid
    \/ ForwardUp
    \/ ForwardOut
    \/ Return

Spec == Init /\ [][Next]_vars

\* a second specification: the model is called again and again, and any one
\* finished call may be kept in ref to be compared with a later one
DetConfigs ==
    {c \in Configs : /\ c.attention_head_dim.isint
                     /\ c.transformer_layers_per_block.isint
                     /\ c.block_out_channels[Len(c.block_out_channels)] = 4}

ConstructDet == ConstructFrom(DetConfigs)

Remember ==
    /\ pc \in {"done", "failed"}
    /\ ref' = [args |-> args, ret |-> ret, err |-> err, trace |-> trace]
    /\ EndCall

NextDet ==
    \/ ConstructDet
    \/ Call
    \/ ForwardEmbed
    \/ ForwardConvIn
    \/ ForwardDown
    \/ ForwardMid
    \/ ForwardUp
    \/ ForwardOut
    \/ Return
    \/ Remember

SpecDet == Init /\ [][NextDet]_vars

\* ------------------------------------------------------------- properties
Constructed == pc \notin {"new", "nomodel"}

AfterUpPass == pc \in {"out", "done"}

NumStages == Len(cfg.down_block_types)

SeqFits(x, n) == x.isint \/ Len(x.seq) = n

\* every per-stage sequence of the config has one entry per stage
WellFormed(c) ==
    /\ Len(c.up_block_types) = Len(c.down_block_types)
    /\ Len(c.block_out_channels) = Len(c.down_block_types)
    /\ SeqFits(c.attention_head_dim, Len(c.down_block_types))
    /\ SeqFits(c.transformer_layers_per_block, Len(c.down_block_types))

RECURSIVE Produced(_)
\* the skip tensors the call has produced so far, in production order
Produced(t) ==
    IF t = <<>> THEN <<>>
    ELSE Produced(SubSeq(t, 1, Len(t) - 1))
         \o (IF t[Len(t)].op \in {"conv_in", "down"} THEN t[Len(t)].res ELSE <<>>)

RECURSIVE Demanded(_)
\* the sum of len(upsample_block.resnets) over the up blocks that have run
Demanded(t) ==
    IF t = <<>> THEN 0
    ELSE Demanded(SubSeq(t, 1, Len(t) - 1))
         + (IF t[Len(t)].op = "up" THEN t[Len(t)].resnets ELSE 0)

RECURSIVE Consumed(_)
\* the segments handed to the up blocks, the last up block's first
Consumed(t) ==
    IF t = <<>> THEN <<>>
    ELSE (IF t[Len(t)].op = "up" THEN t[Len(t)].res ELSE <<>>)
         \o Consumed(SubSeq(t, 1, Len(t) - 1))

UpEntries == {k \in 1..Len(trace) : trace[k].op = "up"}

BlockEntries == {k \in 1..Len(trace) : trace[k].op \in {"down", "mid", "up"}}

\* C1: after the last up block of a forward call on a model that construction
\* yielded, as many skip tensors were produced in the down pass as the up
\* blocks' resnet counts add up to, and down_block_res_samples is empty.
C1_SkipBalance ==
    AfterUpPass =>
        /\ Len(Produced(trace)) = Demanded(trace)
        /\ down_block_res_samples = <<>>

\* C2: construction yields no model when attention_head_dim or
\* transformer_layers_per_block is a sequence whose length is not the number of
\* down stages, or when up_block_types and down_block_types differ in length.
C2_MismatchRejected ==
    (/\ pc # "new"
     /\ \/ ~SeqFits(cfg.attention_head_dim, NumStages)
        \/ ~SeqFits(cfg.transformer_layers_per_block, NumStages)
        \/ Len(cfg.up_block_types) # NumStages)
    => pc = "nomodel"

InCallPastEmbed == pc \in {"conv_in", "down", "mid", "up", "out", "done"}

AuxMissing == args.text_embeds = "None" \/ args.time_ids = "None"

\* C3: a forward call fails on the missing auxiliary inputs exactly when
\* addition_embed_type is "text_time" and text_embeds or time_ids is absent; it
\* fails before conv_in or any block has run and before any skip tensor exists;
\* in any other mode the call does not fail so and the embedding is that of the
\* timesteps alone, whatever text_embeds and time_ids are.
C3_AuxPrecondition ==
    /\ pc = "failed" =>
          /\ cfg.addition_embed_type = "text_time" /\ AuxMissing
          /\ err = "AssertionError"
          /\ trace = <<>> /\ down_block_res_samples = <<>> /\ ret = NoTensor
    /\ InCallPastEmbed =>
          /\ ~(cfg.addition_embed_type = "text_time" /\ AuxMissing)
          /\ cfg.addition_embed_type # "text_time" => emb = TimeEmbedding(args.timesteps)
          /\ cfg.addition_embed_type = "text_time" =>
                emb = EmbSum(TimeEmbedding(args.timesteps),
                             AddEmbedding(args.text_embeds, args.time_ids))

C3_Witness ==
    /\ pc = "failed"
    /\ cfg.addition_embed_type = "text_time"
    /\ args.text_embeds = "pooled"
    /\ args.time_ids = "None"

\* C4: no up block is invoked with fewer skip tensors than it has resnets (the
\* call fails at the pop instead).
C4_UnderflowRaises ==
    \A k \in UpEntries : Len(trace[k].res) >= trace[k].resnets

Halvings ==
    Cardinality({k \in 1..(Len(trace) - 1) :
                    trace[k].op = "down" /\ 2 * trace[k + 1].hidden.res = trace[k].hidden.res})

Doublings ==
    Cardinality({k \in 1..(Len(trace) - 1) :
                    trace[k].op = "up" /\ trace[k + 1].hidden.res = 2 * trace[k].hidden.res})

\* C5: for a config whose sequences all have one entry per stage, the tensor
\* forward returns has the resolution of the input sample and out_channels
\* channels; the down pass halves the resolution as often as the up pass
\* doubles it, one time fewer than there are stages; conv_out maps
\* block_out_channels[0] to out_channels.
C5_OutputShape ==
    (pc = "done" /\ WellFormed(cfg)) =>
        /\ ret.res = args.sample.res
        /\ ret.ch = cfg.out_channels
        /\ Halvings = NumStages - 1
        /\ Doublings = NumStages - 1
        /\ trace[Len(trace)].hidden.ch = cfg.block_out_channels[1]
        /\ model.conv_out.in_channels = cfg.block_out_channels[1]

C5_Witness ==
    /\ pc = "done"
    /\ WellFormed(cfg)
    /\ NumStages >= 2
    /\ ret.res = 16
    /\ ret.ch = 3

\* C6: a forward call leaves the model as construction made it, and a call
\* with the same arguments as an earlier call of the same model ends the same
\* way: the same returned tensor or exception and the same sequence of block
\* invocations and skip tensors, whatever calls ran in between.
C6_Stateless ==
    /\ Constructed => model = BuildModel(cfg)
    /\ (pc \in {"done", "failed"} /\ ref # NoRef /\ ref.args = args) =>
          /\ ref.ret = ret
          /\ ref.err = err
          /\ ref.trace = trace

C6_Witness ==
    /\ pc = "done"
    /\ ref # NoRef
    /\ ref.args = args
    /\ ref.ret = ret
    /\ ret # NoTensor
    /\ Len(trace) >= 5

\* C7: each up block is handed exactly len(resnets) tensors, the tail of the
\* skip tuple in production order, and they are removed; after the up pass the
\* segments of the last up block through the first make up the whole down-pass
\* skip sequence.
C7_SegmentsPartition ==
    /\ \A k \in UpEntries :
          /\ Len(trace[k].res) = trace[k].resnets
          /\ trace[k].stk + trace[k].resnets = trace[k - 1].stk
          /\ trace[k].res =
                SubSeq(Produced(trace), trace[k].stk + 1, trace[k].stk + trace[k].resnets)
    /\ AfterUpPass => Consumed(trace) = Produced(trace)

\* C8: in a constructed model every down block but the last entry of
\* down_block_types has a downsampler and that last one has none; every up
\* block but the last entry of up_block_types has an upsampler and that last
\* one has none.
C8_SamplersAllButLast ==
    Constructed =>
        /\ \A i \in 1..Len(model.down_blocks) :
              model.down_blocks[i].add_downsample = (i # Len(cfg.down_block_types))
        /\ \A i \in 1..Len(model.up_blocks) :
              model.up_blocks[i].add_upsample = (i # Len(cfg.up_block_types))

Ops(t) == [k \in 1..Len(t) |-> t[k].op]

Stages(t) == [k \in 1..Len(t) |-> t[k].stage]

\* C9: a forward call that returns has run, in this order: the embedding,
\* conv_in, every down block in order, the mid block once, every up block in
\* order, the output convolution; the mid block left the skip tuple as it was;
\* every block was given the embedding computed at the start.
C9_StepOrder ==
    pc = "done" =>
        LET nd == Len(cfg.down_block_types)
            nu == Len(cfg.up_block_types)
        IN /\ Ops(trace) = <<"embed", "conv_in">> \o Repeat("down", nd) \o <<"mid">>
                           \o Repeat("up", nu) \o <<"out">>
           /\ Stages(trace) = <<0, 0>> \o [i \in 1..nd |-> i] \o <<0>>
                              \o [i \in 1..nu |-> i] \o <<0>>
           /\ trace[nd + 3].stk = trace[nd + 2].stk
           /\ \A k \in BlockEntries : trace[k].emb = trace[1].emb
           /\ trace[1].emb = emb

C9_Witness ==
    /\ pc = "done"
    /\ Len(cfg.down_block_types) = 2
    /\ Len(cfg.up_block_types) = 2
    /\ cfg.addition_embed_type = "text_time"
    /\ Len(trace) = 8

\* the skip tensors up block i of n should get: the output one stage up (the
\* downsampled output of down stage n - i, or conv_in's output) and then the
\* resnet outputs of down stage n + 1 - i
IsMatchingSegment(seg, i, n) ==
    /\ Len(seg) >= 1
    /\ IF i = n THEN seg[1].src.kind = "conv_in"
       ELSE seg[1].src.kind = "ds" /\ seg[1].src.stage = n - i
    /\ \A j \in 2..Len(seg) :
          /\ seg[j].src.kind = "res"
          /\ seg[j].src.stage = n + 1 - i
          /\ seg[j].src.idx = j - 1

\* C10: for a config whose sequences all have one entry per stage, every skip
\* tensor an up block is given has the resolution of the hidden state that up
\* block is given, and up block i gets the skip tensors of down stage
\* n + 1 - i's resolution.
C10_SkipResolutionMatch ==
    WellFormed(cfg) =>
        \A k \in UpEntries :
            /\ \A j \in 1..Len(trace[k].res) : trace[k].res[j].res = trace[k].hidden.res
            /\ Len(trace[k].res) = cfg.layers_per_block + 1
            /\ IsMatchingSegment(trace[k].res, trace[k].stage, NumStages)

C10_Witness ==
    /\ pc = "done"
    /\ WellFormed(cfg)
    /\ NumStages >= 2
    /\ cfg.layers_per_block >= 2

====
